---- MODULE Spec2Model ----
(***************************************************************************)
(* The user-profile synchronisation hooks of src/src/hooks/useUserQuery.ts *)
(* as a state machine: the query cache entry ["user","profile"], the       *)
(* persisted storage (user_profile and the four session keys), the read    *)
(* hook (useUserQuery), the optimistic update (useUpdateUserMutation) and  *)
(* the logout (useLogoutMutation).                                         *)
(*                                                                         *)
(* The hooks run on a single-threaded event loop.  A handler runs to its   *)
(* end or to an await of a remote call; an await that only waits for       *)
(* promise bookkeeping (await cancelQueries) yields to no other handler,   *)
(* so each action below is one handler up to its remote call.              *)
(***************************************************************************)
EXTENDS Naturals, FiniteSets, Sequences, TLC

(* ---------------------------------------------------------------------- *)
(* Bounds of the model                                                     *)
(* ---------------------------------------------------------------------- *)
MaxReaders == 2
MaxUpdates == 1
MaxFetches == 2
MaxOverlap == 2

(* ---------------------------------------------------------------------- *)
(* Program constants                                                       *)
(* ---------------------------------------------------------------------- *)
staleTime == 5 * 60 * 1000
gcTime == 30 * 60 * 1000
retry == 3

(* ---------------------------------------------------------------------- *)
(* Values                                                                  *)
(* ---------------------------------------------------------------------- *)
Readers == 1..MaxReaders
Mutations == 1..MaxOverlap
FetchIds == 1..MaxFetches

FieldOrder == <<"name", "email">>
Fields == {FieldOrder[i] : i \in 1..Len(FieldOrder)}
FieldValues == [name |-> {"Bob", "Alice"}, email |-> {"b@x.com"}]

\* the User records the remote authority can return (data.data)
Profiles == {p \in [Fields -> UNION {FieldValues[f] : f \in Fields}] :
               \A f \in Fields : p[f] \in FieldValues[f]}

\* Partial<User>: any subset of the fields, each with one of its values
PartialUsers == UNION {{u \in [D -> UNION {FieldValues[f] : f \in Fields}] :
                          \A f \in D : u[f] \in FieldValues[f]} : D \in SUBSET Fields}

\* getQueryData's undefined
Absent == [absent |-> TRUE]

\* localStorage.getItem's null
NoItem == <<>>

\* no context: onMutate has not returned one, or the mutation has settled
NoContext == [none |-> TRUE]

\* the updates the callers pass to mutate(): a new name
Updates == {u \in PartialUsers : DOMAIN u = {"name"}}

\* the lengths of time the model lets pass at once: up to the last ms before
\* staleTime, that ms, or gcTime
Durations == {staleTime - 1, 1, gcTime}

userQueryKeys == [user |-> <<"user">>, profile |-> <<"user", "profile">>]

StorageKeys == {"user_profile", "auth_token", "refresh_token", "expires_in",
                "refresh_expires_in"}
TokenValue == <<"session">>

\* {...previousUser, ...updates}
Merge(previousUser, updates) ==
  [f \in (DOMAIN previousUser) \cup (DOMAIN updates) |->
     IF f \in DOMAIN updates THEN updates[f] ELSE previousUser[f]]

\* JSON.stringify of a record of strings: its members in key order
JSONstringify(user) ==
  LET present == SelectSeq(FieldOrder, LAMBDA f : f \in DOMAIN user)
  IN  [i \in 1..Len(present) |-> <<present[i], user[present[i]]>>]

\* JSON.parse of such a text
JSONparse(text) ==
  [f \in {text[i][1] : i \in 1..Len(text)} |->
     LET i == CHOOSE j \in 1..Len(text) : text[j][1] = f IN text[i][2]]

\* a query key matches a filter key when the filter is a prefix of it
IsPrefix(filterKey, key) ==
  /\ Len(filterKey) <= Len(key)
  /\ \A i \in 1..Len(filterKey) : filterKey[i] = key[i]

(* ---------------------------------------------------------------------- *)
(* State                                                                   *)
(* ---------------------------------------------------------------------- *)
VARIABLES
  qExists,       \* the query ["user","profile"] is in the query cache
  qData,         \* its state.data (Absent: undefined)
  qInvalidated,  \* its state.isInvalidated
  qAge,          \* now - state.dataUpdatedAt, in ms (0 without data)
  gcAge,         \* ms since the query's gc timer was scheduled
  fetchId,       \* the fetch the query has in flight (0: fetchStatus idle)
  failureCount,  \* its state.fetchFailureCount
  nFetches,      \* fetches started so far (the next fetch is nFetches + 1)
  zombies,       \* queryFn calls still running whose fetch was cancelled
  rState,        \* each useUserQuery caller: "off", "waiting", "served", "failed"
  rFetch,        \* the fetch a caller's read awaits (0: none)
  uState,        \* each update: "pending" from mutate() to its end, else "idle"
  uVars,         \* its variables (the Partial<User> passed to mutate)
  uCtx,          \* its context { previousUser } (NoContext: none)
  lState,        \* the logout: "pending" from mutate() to its end, else "idle"
  navigated,     \* window.location.href was set to /auth
  localStorage,  \* the five persisted keys (NoItem: not stored)
  \* history, read by the properties only
  uBefore,       \* the cache payload when the pending update began
  uClean,        \* no other operation acted since the pending update began
  raced,         \* the unsettled fetches that were in flight when an update began
  committed,     \* every payload the cache entry has held
  owed,          \* an update's onSuccess invalidated the entry and no fetch ended well since
  preLogout,     \* the queryFn calls still running that began before a logout cleaned up
  uGroup,        \* the updates that overlap: the payload before the first, ... (NoGroup: none do)
  ev             \* the step that led to this state

cacheVars == <<qExists, qData, qInvalidated, qAge, gcAge, fetchId, failureCount>>
vars == <<qExists, qData, qInvalidated, qAge, gcAge, fetchId, failureCount,
          nFetches, zombies, rState, rFetch, uState, uVars, uCtx, lState,
          navigated, localStorage, uBefore, uClean, raced, committed, owed,
          preLogout, uGroup, ev>>

\* the record of a step that no property needs to tell from the others
Step == [op |-> "step"]

\* no two updates overlap
NoGroup == [none |-> TRUE]

Init ==
  /\ qExists = FALSE
  /\ qData = Absent
  /\ qInvalidated = FALSE
  /\ qAge = 0
  /\ gcAge = 0
  /\ fetchId = 0
  /\ failureCount = 0
  /\ nFetches = 0
  /\ zombies = {}
  /\ rState = [r \in Readers |-> "off"]
  /\ rFetch = [r \in Readers |-> 0]
  /\ uState = [m \in Mutations |-> "idle"]
  /\ uVars = [m \in Mutations |-> <<>>]
  /\ uCtx = [m \in Mutations |-> NoContext]
  /\ lState = "idle"
  /\ navigated = FALSE
  /\ localStorage = [k \in StorageKeys |->
                       IF k = "user_profile" THEN NoItem ELSE TokenValue]
  /\ uBefore = [m \in Mutations |-> Absent]
  /\ uClean = [m \in Mutations |-> FALSE]
  /\ raced = {}
  /\ committed = {}
  /\ owed = FALSE
  /\ preLogout = {}
  /\ uGroup = NoGroup
  /\ ev = Step

(* ---------------------------------------------------------------------- *)
(* The query cache, as the hooks use it                                    *)
(* ---------------------------------------------------------------------- *)
Min(a, b) == IF a < b THEN a ELSE b

observers == Cardinality({r \in Readers : rState[r] # "off"})

\* staleness that leaves the age of the payload out
isStaleNoAge == qData = Absent \/ qInvalidated

\* Query.isStale for staleTime: no data, invalidated, or age >= staleTime
isStale == qData = Absent \/ qInvalidated \/ qAge >= staleTime

\* another operation acted: no pending update but `m` stays undisturbed
Disturb(m) == [x \in Mutations |-> IF x = m THEN uClean[x] ELSE FALSE]

\* the updates under way
pending == {m \in Mutations : uState[m] = "pending"}

\* another operation acted while updates overlap
Noise(group) == IF group = NoGroup THEN group ELSE [group EXCEPT !.quiet = FALSE]

\* an update begins: with another one under way they overlap, and the history
\* keeps the payload before the first, whether all that ended were rejected
\* and whether nothing else has acted
beginGroup ==
  IF pending = {} \/ uGroup # NoGroup THEN uGroup
  ELSE LET first == CHOOSE x \in pending : TRUE
       IN  [origin |-> uBefore[first], rejected |-> TRUE, quiet |-> uClean[first]]

\* an update ends
endGroup(m, rejected) ==
  IF uGroup = NoGroup \/ pending = {m} THEN NoGroup
  ELSE [uGroup EXCEPT !.rejected = @ /\ rejected]

\* a fetch per stale read, whether or not one is in flight
startsFetchEachRead(inflight, stale) == stale

\* refetchOnMount: 'always': a fetch per read when none is in flight
startsFetchOnMount(inflight, stale) == inflight = 0

\* Query.fetch dedupes: a stale read starts a fetch only when none is in flight
startsFetch(inflight, stale) == stale /\ inflight = 0

\* the query's gc timer is due: gcTime passed with no observer and no fetch
gcDue == qExists /\ observers = 0 /\ fetchId = 0 /\ gcAge >= gcTime

\* queryClient.setQueryData(profile, data): the payload, a fresh timestamp,
\* isInvalidated reset; it builds the query when there is none
setQueryData(data) ==
  /\ qExists' = TRUE
  /\ qData' = data
  /\ qInvalidated' = FALSE
  /\ qAge' = 0
  /\ gcAge' = IF qExists THEN gcAge ELSE 0
  /\ committed' = committed \cup {data}

\* QueryCache.remove: the query leaves the cache, its observers are detached
removeQuery ==
  /\ qExists' = FALSE
  /\ qData' = Absent
  /\ qInvalidated' = FALSE
  /\ qAge' = 0
  /\ gcAge' = 0
  /\ fetchId' = 0
  /\ failureCount' = 0
  /\ rState' = [r \in Readers |-> "off"]
  /\ rFetch' = [r \in Readers |-> 0]

(* ---------------------------------------------------------------------- *)
(* Persisted storage                                                       *)
(* ---------------------------------------------------------------------- *)
\* localStorage.setItem; `ok` is FALSE when the write throws (quota exceeded)
setItem(store, key, value, ok) ==
  IF ok THEN [store EXCEPT ![key] = value] ELSE store

\* setItem(key, null) in the place of removeItem: the text "null" is stored
removeItemStoresNull(store, key) == [store EXCEPT ![key] = <<"null">>]

\* localStorage.removeItem
removeItem(store, key) == [store EXCEPT ![key] = NoItem]

\* the profile taken from the query cache, not from the storage
getLocalUserDataFromCache == qData

\* getLocalUserData
getLocalUserData ==
  IF localStorage["user_profile"] # NoItem
    THEN JSONparse(localStorage["user_profile"])
    ELSE Absent

(* ---------------------------------------------------------------------- *)
(* The remote authority                                                    *)
(* ---------------------------------------------------------------------- *)
\* what authApi.getCurrentUser() settles with: {data, error}, or a rejection
Responses ==
  {[rejected |-> FALSE, error |-> FALSE, body |-> "user", user |-> p] : p \in Profiles}
  \cup {[rejected |-> FALSE, error |-> TRUE, body |-> "user", user |-> p] : p \in Profiles}
  \cup {[rejected |-> FALSE, error |-> TRUE, body |-> "null", user |-> Absent],
        [rejected |-> FALSE, error |-> FALSE, body |-> "null", user |-> Absent],
        [rejected |-> FALSE, error |-> FALSE, body |-> "empty", user |-> Absent],
        [rejected |-> TRUE, error |-> FALSE, body |-> "null", user |-> Absent]}

\* what UserApi.updateUser(updates) and authApi.logout() settle with: a result
\* without error, a result carrying an error, or a rejection
RemoteOutcomes == {"ok", "error", "rejected"}

\* the remote call failed
remoteFailed(outcome) == outcome # "ok"

\* queryFn: if (error || !data || !data.data) throw
queryFnThrows(resp) ==
  resp.rejected \/ resp.error \/ resp.body = "null" \/ resp.body = "empty"

(* ---------------------------------------------------------------------- *)
(* useUserQuery                                                            *)
(* ---------------------------------------------------------------------- *)
\* the record of a useUserQuery call: the entry was stale, it held a payload
\* as old as gcTime
useUserQueryEvent(stale, old) == [op |-> "useUserQuery", stale |-> stale, old |-> old]

\* what useQuery returns to a caller as `data`: the payload of the query,
\* also while a fetch is in flight
data(r) == IF rState[r] # "off" THEN qData ELSE Absent

\* A component calls useUserQuery(): its observer subscribes to the query.
\* Fresh data is served from the cache; a stale, invalidated or missing entry
\* is fetched, the caller joining the fetch in flight when there is one.
useUserQuery(r) ==
  /\ rState[r] = "off"
  /\ \A x \in Readers : x < r => rState[x] # "off"
  /\ LET start == startsFetch(fetchId, isStale)
     IN  /\ start => nFetches < MaxFetches
         /\ qExists' = TRUE
         /\ gcAge' = 0
         /\ fetchId' = IF start THEN nFetches + 1 ELSE fetchId
         /\ nFetches' = IF start THEN nFetches + 1 ELSE nFetches
         /\ failureCount' = IF start THEN 0 ELSE failureCount
         /\ rState' = [rState EXCEPT ![r] = IF isStale THEN "waiting" ELSE "served"]
         /\ rFetch' = [rFetch EXCEPT ![r] = IF isStale THEN fetchId' ELSE 0]
         /\ ev' = useUserQueryEvent(isStale, qData # Absent /\ qAge >= gcTime)
  /\ uClean' = Disturb(0)
  /\ uGroup' = Noise(uGroup)
  /\ UNCHANGED <<qData, qInvalidated, qAge, zombies, uState, uVars, uCtx, lState,
                 navigated, localStorage, uBefore, raced, committed, owed,
                 preLogout>>

\* The component unmounts.  The last observer leaving schedules the gc timer
\* and stops the retries of a fetch in flight.
unsubscribe(r) ==
  /\ rState[r] # "off"
  /\ rState' = [rState EXCEPT ![r] = "off"]
  /\ rFetch' = [rFetch EXCEPT ![r] = 0]
  /\ gcAge' = 0
  /\ ev' = Step
  /\ uClean' = Disturb(0)
  /\ uGroup' = Noise(uGroup)
  /\ UNCHANGED <<qExists, qData, qInvalidated, qAge, fetchId, failureCount,
                 nFetches, zombies, uState, uVars, uCtx, lState, navigated,
                 localStorage, uBefore, raced, committed, owed, preLogout>>

\* setItem moved above the check of the response
mirrorBeforeCheck(store, resp, ok) ==
  IF resp.body = "user"
    THEN setItem(store, "user_profile", JSONstringify(resp.user), ok)
    ELSE store

\* what user_profile holds after a queryFn call that got `resp`
mirrorAfterQueryFn(store, resp, ok) ==
  IF queryFnThrows(resp)
    THEN store
    ELSE setItem(store, "user_profile", JSONstringify(resp.user), ok)

\* setItem with whatever getQueryData returned: undefined is stored as text
mirrorAfterOnSuccessUnguarded(store, currentUser, ok) ==
  IF currentUser # Absent
    THEN setItem(store, "user_profile", JSONstringify(currentUser), ok)
    ELSE setItem(store, "user_profile", <<"undefined">>, ok)

\* what user_profile holds after onSuccess found `currentUser` in the cache
mirrorAfterOnSuccess(store, currentUser, ok) ==
  IF currentUser # Absent
    THEN setItem(store, "user_profile", JSONstringify(currentUser), ok)
    ELSE store

\* the queryFn call ends by throwing: the check of the response, or setItem
queryFnFails(resp, ok) == queryFnThrows(resp) \/ ~ok

\* the record of a queryFn call's end: it returned data.data, it threw on the
\* response, or (told apart for a fetch still in flight, with the payload it
\* had) setItem threw on the quota
queryFnEvent(fid, resp, ok, cancelled) ==
  [op |-> "queryFn", raced |-> fid \in raced, cancelled |-> cancelled,
   end |-> IF queryFnThrows(resp) THEN "threw"
           ELSE IF ok THEN "returned"
           ELSE IF cancelled THEN "threw" ELSE "quota",
   user |-> IF ~queryFnThrows(resp) /\ ~ok /\ ~cancelled THEN resp.user ELSE Absent]

\* the callers whose read awaited the fetch get its end
settleReaders(to) ==
  /\ rState' = [r \in Readers |-> IF rState[r] = "waiting" THEN to ELSE rState[r]]
  /\ rFetch' = [r \in Readers |-> 0]

\* The queryFn call of the fetch in flight settles.
queryFn(resp, ok) ==
  /\ fetchId # 0
  /\ localStorage' = mirrorAfterQueryFn(localStorage, resp, ok)
  /\ IF ~queryFnFails(resp, ok)
       THEN \* return data.data: the cache takes the payload
            /\ qData' = resp.user
            /\ qInvalidated' = FALSE
            /\ qAge' = 0
            /\ committed' = committed \cup {resp.user}
            /\ fetchId' = 0
            /\ failureCount' = 0
            /\ settleReaders("served")
       ELSE IF failureCount < retry /\ observers > 0
         THEN \* retried: the next call of queryFn is in flight
              /\ failureCount' = failureCount + 1
              /\ UNCHANGED <<qData, qInvalidated, qAge, committed, fetchId,
                             rState, rFetch>>
         ELSE \* the error reaches the callers; the payload stays
              /\ fetchId' = 0
              /\ failureCount' = 0
              /\ settleReaders("failed")
              /\ UNCHANGED <<qData, qInvalidated, qAge, committed>>
  /\ gcAge' = 0
  /\ raced' = IF fetchId' = 0 THEN raced \ {fetchId} ELSE raced
  /\ ev' = queryFnEvent(fetchId, resp, ok, FALSE)
  /\ owed' = (owed /\ queryFnFails(resp, ok))
  /\ uClean' = Disturb(0)
  /\ uGroup' = Noise(uGroup)
  /\ UNCHANGED <<qExists, nFetches, zombies, uState, uVars, uCtx, lState,
                 navigated, uBefore, preLogout>>

\* A queryFn call whose fetch was cancelled settles: queryFn never reads the
\* abort signal, so the call runs to its end; the cache ignores its result.
queryFnCancelled(z, resp, ok) ==
  /\ z \in zombies
  /\ zombies' = zombies \ {z}
  /\ localStorage' = mirrorAfterQueryFn(localStorage, resp, ok)
  /\ raced' = raced \ {z}
  /\ ev' = queryFnEvent(z, resp, ok, TRUE)
  /\ preLogout' = preLogout \ {z}
  /\ uClean' = Disturb(0)
  /\ uGroup' = Noise(uGroup)
  /\ UNCHANGED <<qExists, qData, qInvalidated, qAge, gcAge, fetchId, failureCount,
                 nFetches, rState, rFetch, uState, uVars, uCtx, lState,
                 navigated, uBefore, committed, owed>>

(* ---------------------------------------------------------------------- *)
(* useUpdateUserMutation                                                   *)
(* ---------------------------------------------------------------------- *)
\* onMutate without its cancelQueries call
cancelQueriesSkipped(inflight) == FALSE

\* onMutate: cancelQueries cancels the fetch in flight for the profile key
cancelQueries(inflight) == inflight # 0

\* the spread written the other way round: {...updates, ...previousUser}
optimisticDataReversed(previousUser, updates) ==
  IF previousUser # Absent THEN Merge(updates, previousUser) ELSE previousUser

\* the spread written without its if (previousUser)
optimisticDataUnguarded(previousUser, updates) ==
  IF previousUser # Absent THEN Merge(previousUser, updates) ELSE updates

\* onMutate: the payload written to the cache by the optimistic update
\* (Absent: nothing is written)
optimisticData(previousUser, updates) ==
  IF previousUser # Absent THEN Merge(previousUser, updates) ELSE previousUser

\* a context only when there is a profile to roll back to
mutationContextIfSnapshot(previousUser, updates) ==
  IF previousUser # Absent THEN [previousUser |-> previousUser] ELSE NoContext

\* onMutate: return { previousUser }
mutationContext(previousUser, updates) == [previousUser |-> previousUser]

\* onError: the payload the cache holds after the rollback
rollbackData(previousUser, current) ==
  IF previousUser # Absent THEN previousUser ELSE current

\* the mutation settled: its variables and context are read no more
settleMutation(m) ==
  /\ uState' = [uState EXCEPT ![m] = "idle"]
  /\ uVars' = [uVars EXCEPT ![m] = <<>>]
  /\ uCtx' = [uCtx EXCEPT ![m] = NoContext]
  /\ uBefore' = [uBefore EXCEPT ![m] = Absent]
  /\ uClean' = [Disturb(0) EXCEPT ![m] = FALSE]

\* mutate(updates): onMutate runs to its end, then mutationFn calls
\* UserApi.updateUser(updates), which is left in flight.
onMutate(m, updates) ==
  /\ uState[m] = "idle"
  /\ \A x \in Mutations : x < m => uState[x] = "pending"
  /\ LET cancel == cancelQueries(fetchId)
         previousUser == qData
     IN  /\ fetchId' = IF cancel THEN 0 ELSE fetchId
         /\ failureCount' = IF cancel THEN 0 ELSE failureCount
         /\ zombies' = IF cancel THEN zombies \cup {fetchId} ELSE zombies
         /\ rState' = [r \in Readers |->
                         IF cancel /\ rState[r] = "waiting" THEN "served"
                         ELSE rState[r]]
         /\ rFetch' = [r \in Readers |-> IF cancel THEN 0 ELSE rFetch[r]]
         /\ IF optimisticData(previousUser, updates) # Absent
              THEN setQueryData(optimisticData(previousUser, updates))
              ELSE UNCHANGED <<qExists, qData, qInvalidated, qAge, gcAge, committed>>
         /\ uCtx' = [uCtx EXCEPT ![m] = mutationContext(previousUser, updates)]
         /\ uBefore' = [uBefore EXCEPT ![m] = qData]
         /\ raced' = IF fetchId # 0 THEN raced \cup {fetchId} ELSE raced
  /\ uVars' = [uVars EXCEPT ![m] = updates]
  /\ uState' = [uState EXCEPT ![m] = "pending"]
  /\ uClean' = [Disturb(0) EXCEPT ![m] = TRUE]
  /\ uGroup' = beginGroup
  /\ ev' = Step
  /\ UNCHANGED <<nFetches, lState, navigated, localStorage, owed, preLogout>>

\* context?.previousUser
previousUserOf(context) ==
  IF context # NoContext THEN context.previousUser ELSE Absent

\* onError(error, variables, context): roll the cache back, report the error
onError(m, remote, invalidated) ==
  /\ IF previousUserOf(uCtx[m]) # Absent
       THEN setQueryData(rollbackData(previousUserOf(uCtx[m]), qData))
       ELSE /\ qInvalidated' = invalidated
            /\ UNCHANGED <<qExists, qData, qAge, gcAge, committed>>
  /\ settleMutation(m)
  /\ ev' = [op |-> "updateSettled", remote |-> remote, handler |-> "onError"]

\* UserApi.updateUser(updates) rejects: mutationFn throws and onError runs.
updateRejected(m) ==
  /\ uState[m] = "pending"
  /\ onError(m, "rejected", qInvalidated)
  /\ uGroup' = endGroup(m, TRUE)
  /\ UNCHANGED <<fetchId, failureCount, nFetches, zombies, rState, rFetch,
                 lState, navigated, localStorage, raced, owed, preLogout>>

\* UserApi.updateUser(updates) resolves, with or without an error in its
\* result: mutationFn returns it and onSuccess runs.  invalidateQueries marks
\* the entry and refetches it when it has observers; the cached payload, when
\* there is one, is written to user_profile.  When that write throws, the
\* mutation fails after all and onError runs.
updateResolved(m, remote, ok) ==
  /\ uState[m] = "pending"
  /\ remote \in {"ok", "error"}
  /\ LET active == qExists /\ observers > 0
         \* Query.fetch with cancelRefetch: a fetch in flight is replaced when
         \* the query has data, and joined when it has none
         restart == active /\ ~(fetchId # 0 /\ qData = Absent)
         currentUser == qData
         thrown == currentUser # Absent /\ ~ok
     IN  /\ restart => nFetches < MaxFetches
         /\ fetchId' = IF restart THEN nFetches + 1 ELSE fetchId
         /\ nFetches' = IF restart THEN nFetches + 1 ELSE nFetches
         /\ failureCount' = IF restart THEN 0 ELSE failureCount
         /\ zombies' = IF restart /\ fetchId # 0 THEN zombies \cup {fetchId} ELSE zombies
         /\ rFetch' = [r \in Readers |->
                         IF rState[r] = "waiting" THEN fetchId' ELSE rFetch[r]]
         /\ localStorage' = mirrorAfterOnSuccess(localStorage, currentUser, ok)
         /\ owed' = IF thrown THEN owed ELSE qExists
         /\ IF thrown
              THEN onError(m, remote, qExists)
              ELSE /\ qInvalidated' = qExists
                   /\ settleMutation(m)
                   /\ ev' = [op |-> "updateSettled", remote |-> remote,
                             handler |-> "onSuccess"]
                   /\ UNCHANGED <<qExists, qData, qAge, gcAge, committed>>
  /\ uGroup' = endGroup(m, FALSE)
  /\ UNCHANGED <<rState, lState, navigated, raced, preLogout>>

(* ---------------------------------------------------------------------- *)
(* useLogoutMutation                                                       *)
(* ---------------------------------------------------------------------- *)
\* mutate(): mutationFn calls authApi.logout(), which is left in flight.
logout ==
  /\ lState = "idle"
  /\ lState' = "pending"
  /\ ev' = [op |-> "logout",
            again |-> ev.op = "logoutSettled" /\ ev.handler = "onSuccess"]
  /\ uClean' = Disturb(0)
  /\ uGroup' = Noise(uGroup)
  /\ UNCHANGED <<qExists, qData, qInvalidated, qAge, gcAge, fetchId, failureCount,
                 nFetches, zombies, rState, rFetch, uState, uVars, uCtx,
                 navigated, localStorage, uBefore, raced, committed, owed,
                 preLogout>>

\* onSuccess: the five removeItem calls
clearSession(store) ==
  removeItem(removeItem(removeItem(removeItem(removeItem(store,
    "user_profile"), "auth_token"), "refresh_token"), "expires_in"),
    "refresh_expires_in")

\* the statements of onSuccess with the navigation first
onSuccessBodyNavigateFirst == <<"navigate", "removeQueries", "removeItems">>

\* onSuccess, statement by statement: removeQueries, the removeItem calls,
\* window.location.href = '/auth'
onSuccessBody == <<"removeQueries", "removeItems", "navigate">>

\* one statement of onSuccess, run on what the handler has reached: whether
\* the query is in the cache, the storage, the navigation, and how the
\* navigation found the session ("none": no navigation yet)
execute(statement, s) ==
  CASE statement = "removeQueries" ->
         [s EXCEPT !.exists = @ /\ ~IsPrefix(userQueryKeys.user, userQueryKeys.profile)]
    [] statement = "removeItems" ->
         [s EXCEPT !.store = clearSession(@)]
    [] statement = "navigate" ->
         [s EXCEPT !.navigated = TRUE,
                   !.handoff = IF s.exists \/ \E k \in StorageKeys : s.store[k] # NoItem
                                 THEN "early" ELSE "clean"]

\* the statements run in their order
RECURSIVE run(_, _)
run(statements, s) ==
  IF statements = <<>> THEN s
  ELSE run(Tail(statements), execute(Head(statements), s))

\* authApi.logout() resolves, with or without an error in its result:
\* onSuccess removes the queries under ["user"], clears the persisted keys and
\* sets window.location.href.
logoutResolved(remote) ==
  /\ lState = "pending"
  /\ remote \in {"ok", "error"}
  /\ LET end == run(onSuccessBody,
                    [exists |-> qExists, store |-> localStorage,
                     navigated |-> navigated, handoff |-> "none"])
     IN  /\ IF qExists /\ ~end.exists
              THEN /\ removeQuery
                   /\ zombies' = IF fetchId # 0 THEN zombies \cup {fetchId} ELSE zombies
              ELSE UNCHANGED <<qExists, qData, qInvalidated, qAge, gcAge, fetchId,
                               failureCount, rState, rFetch, zombies>>
         /\ localStorage' = end.store
         /\ navigated' = end.navigated
         /\ ev' = [op |-> "logoutSettled", handler |-> "onSuccess",
                   again |-> ev.op = "logout" /\ ev.again, handoff |-> end.handoff]
  /\ lState' = "idle"
  /\ owed' = (owed /\ qExists')
  /\ preLogout' = zombies'
  /\ uClean' = Disturb(0)
  /\ uGroup' = Noise(uGroup)
  /\ UNCHANGED <<nFetches, uState, uVars, uCtx, uBefore, raced, committed>>

\* authApi.logout() rejects: onError logs and notifies, nothing else.
logoutRejected ==
  /\ lState = "pending"
  /\ lState' = "idle"
  /\ ev' = [op |-> "logoutSettled", handler |-> "onError",
            again |-> ev.op = "logout" /\ ev.again, handoff |-> "none"]
  /\ uClean' = Disturb(0)
  /\ uGroup' = Noise(uGroup)
  /\ UNCHANGED <<qExists, qData, qInvalidated, qAge, gcAge, fetchId, failureCount,
                 nFetches, zombies, rState, rFetch, uState, uVars, uCtx,
                 navigated, localStorage, uBefore, raced, committed, owed,
                 preLogout>>

(* ---------------------------------------------------------------------- *)
(* Time                                                                    *)
(* ---------------------------------------------------------------------- *)
\* `d` ms pass: the time to the last ms before staleTime and that ms while a
\* caller observes a fresh payload, or gcTime.  A gc timer that is due fires
\* before more time passes.
tick(d) ==
  /\ ~gcDue
  /\ d < gcTime => /\ qData # Absent /\ observers > 0
                   /\ qAge + d \in {staleTime - 1, staleTime}
  /\ \/ qData # Absent /\ qAge < gcTime
     \/ qExists /\ observers = 0 /\ gcAge < gcTime
  /\ qAge' = IF qData # Absent THEN Min(qAge + d, gcTime) ELSE qAge
  /\ gcAge' = IF qExists /\ observers = 0 THEN Min(gcAge + d, gcTime) ELSE gcAge
  /\ ev' = Step
  /\ UNCHANGED <<qExists, qData, qInvalidated, fetchId, failureCount, nFetches,
                 zombies, rState, rFetch, uState, uVars, uCtx, lState,
                 navigated, localStorage, uBefore, uClean, raced, committed,
                 owed, preLogout, uGroup>>

\* The gc timer fires: the unobserved, idle query is removed from the cache.
gc ==
  /\ gcDue
  /\ removeQuery
  /\ ev' = [op |-> "gc"]
  /\ owed' = FALSE
  /\ uClean' = Disturb(0)
  /\ uGroup' = Noise(uGroup)
  /\ UNCHANGED <<nFetches, zombies, uState, uVars, uCtx, lState, navigated,
                 localStorage, uBefore, raced, committed, preLogout>>

(* ---------------------------------------------------------------------- *)
(* Specification                                                           *)
(* ---------------------------------------------------------------------- *)
Next ==
  \/ \E r \in Readers : useUserQuery(r)
  \/ \E r \in Readers : unsubscribe(r)
  \/ \E resp \in Responses, ok \in BOOLEAN : queryFn(resp, ok)
  \/ \E z \in FetchIds, resp \in Responses, ok \in BOOLEAN : queryFnCancelled(z, resp, ok)
  \/ \E m \in Mutations, updates \in Updates :
       Cardinality(pending) < MaxUpdates /\ onMutate(m, updates)
  \/ \E m \in Mutations : updateRejected(m)
  \/ \E m \in Mutations, remote \in RemoteOutcomes, ok \in BOOLEAN :
       updateResolved(m, remote, ok)
  \/ logout
  \/ \E remote \in RemoteOutcomes : logoutResolved(remote)
  \/ logoutRejected
  \/ \E d \in Durations : tick(d)
  \/ gc

Spec == Init /\ [][Next]_vars

\* The reads and the updates alone, with up to MaxOverlap updates under way.
NextOverlap ==
  \/ \E r \in Readers : useUserQuery(r)
  \/ \E resp \in Responses, ok \in BOOLEAN : queryFn(resp, ok)
  \/ \E m \in Mutations, updates \in Updates : onMutate(m, updates)
  \/ \E m \in Mutations : updateRejected(m)
  \/ \E m \in Mutations, remote \in RemoteOutcomes, ok \in BOOLEAN :
       updateResolved(m, remote, ok)

SpecOverlap == Init /\ [][NextOverlap]_vars

(* ---------------------------------------------------------------------- *)
(* Properties                                                              *)
(* ---------------------------------------------------------------------- *)
sessionCleared == \A k \in StorageKeys : localStorage[k] = NoItem

\* an update that snapshotted a profile is between Apply and its end
applied(m) == uState[m] = "pending" /\ previousUserOf(uCtx[m]) # Absent

\* C1 (Rollback): an update that began with the cache holding P, and that no
\* other operation interleaved with, leaves the cache payload equal to P when
\* its remote call has failed (a result carrying an error, or a rejection).
C1_Rollback ==
  [][\A m \in Mutations :
       (/\ uState[m] = "pending" /\ uState'[m] = "idle"
        /\ ev'.op = "updateSettled" /\ remoteFailed(ev'.remote)
        /\ uClean[m] /\ uBefore[m] # Absent)
       => qData' = uBefore[m]]_vars

\* C2 (Optimistic visibility): while an update that began with the cache
\* holding P is pending and no other operation has interleaved, the cache
\* payload is P with the update's fields over it.
C2_OptimisticVisibility ==
  \A m \in Mutations :
    uState[m] = "pending" /\ uClean[m] /\ uBefore[m] # Absent
      => /\ qExists
         /\ qData = [f \in Fields |->
                       IF f \in DOMAIN uVars[m] THEN uVars[m][f] ELSE uBefore[m][f]]

\* C2 witness: a pending, undisturbed update whose new name is in the cache,
\* with the e-mail of P kept.
C2_Witness ==
  \E m \in Mutations :
    /\ uState[m] = "pending" /\ uClean[m] /\ uBefore[m] # Absent
    /\ qData # uBefore[m]
    /\ qData.name = uVars[m].name
    /\ qData.email = uBefore[m].email

\* C3 (Reconcile-on-success): when the remote call of an update that began
\* with a cached profile has succeeded, the entry is stale for the next read
\* (which then calls the remote authority) or its refetch is already in
\* flight; and when a fetch ends well, user_profile holds the profile the
\* server returned.
C3_ReconcileOnSuccess ==
  [][/\ \A m \in Mutations :
          (/\ uState[m] = "pending" /\ uState'[m] = "idle"
           /\ ev'.op = "updateSettled" /\ ev'.remote = "ok"
           /\ uBefore[m] # Absent)
          => (qData' = Absent \/ qInvalidated' \/ qAge' >= staleTime
              \/ fetchId' # 0)
     /\ (ev'.op = "queryFn" /\ ~ev'.cancelled /\ ev'.end = "returned")
          => localStorage'["user_profile"] = JSONstringify(qData')]_vars

\* C4 (Logout teardown is unconditional): when a logout ends, whatever the
\* remote call did, no entry is left under ["user"], the five persisted keys
\* are cleared and the navigation to the login page was made.
C4_LogoutTeardown ==
  [][lState = "pending" /\ lState' = "idle"
       => ~qExists' /\ (\A k \in StorageKeys : localStorage'[k] = NoItem)
          /\ navigated']_vars

\* C5 (Mirror provenance): user_profile is absent or is the text of a payload
\* the cache entry has held.
C5_MirrorProvenance ==
  \/ localStorage["user_profile"] = NoItem
  \/ \E p \in committed : localStorage["user_profile"] = JSONstringify(p)

\* C6 as claimed (Write cancels racing read): between Apply and the end of
\* an update no end of a queryFn call changes the cache payload.
C6_NoReadOverwrite ==
  [][(ev'.op = "queryFn" /\ \E m \in Mutations : applied(m))
       => qData' = qData]_vars

\* C6 as amended: the end of a queryFn call whose fetch was in flight when an
\* update began never changes the cache entry.
C6_RacingReadIgnored ==
  [][(ev'.op = "queryFn" /\ ev'.raced)
       => UNCHANGED <<qExists, qData, qInvalidated, qAge>>]_vars

\* C6 witness: the queryFn call of a fetch that was in flight when the
\* pending update began has returned a profile, and the cache still holds
\* the optimistic payload.
C6_Witness ==
  /\ ev.op = "queryFn" /\ ev.raced /\ ev.cancelled /\ ev.end = "returned"
  /\ \E m \in Mutations :
       /\ applied(m)
       /\ qData = Merge(uBefore[m], uVars[m])
       /\ localStorage["user_profile"] # JSONstringify(qData)

\* C7 (Dedup): the callers whose reads are in flight all await the one fetch
\* the query has in flight.
C7_Dedup ==
  \A r \in Readers : rState[r] = "waiting" => fetchId # 0 /\ rFetch[r] = fetchId

\* C7 witness: two reads in flight on the only fetch started so far.
C7_Witness ==
  /\ \A r \in Readers : rState[r] = "waiting"
  /\ Cardinality(Readers) >= 2
  /\ nFetches = 1

\* C8 (Read failure leaves the stores untouched): a queryFn call of the fetch
\* in flight that throws on its response changes neither the cache payload
\* nor the persisted storage, and when the fetch ends with it, the awaiting
\* callers get the error.
C8_ReadFailure ==
  [][(ev'.op = "queryFn" /\ ~ev'.cancelled /\ ev'.end = "threw")
       => /\ qExists' = qExists /\ qData' = qData
          /\ localStorage' = localStorage
          /\ fetchId' = 0 =>
               \A r \in Readers : rState[r] = "waiting" => rState'[r] = "failed"]_vars

\* C8 witness: a read has failed for good while the cache holds a payload and
\* user_profile another one.
C8_Witness ==
  /\ ev.op = "queryFn" /\ ~ev.cancelled /\ ev.end = "threw"
  /\ fetchId = 0
  /\ \E r \in Readers : rState[r] = "failed"
  /\ qData # Absent
  /\ localStorage["user_profile"] # NoItem
  /\ getLocalUserData # qData

\* C9 (Mirror persistence is best-effort): a setItem that throws in queryFn
\* leaves the read successful, the fetched profile in the cache; an update
\* whose remote call succeeded ends in onSuccess, not onError.
C9_PersistBestEffort ==
  /\ (ev.op = "queryFn" /\ ev.end = "quota") => (qData = ev.user /\ fetchId = 0)
  /\ (ev.op = "updateSettled" /\ ev.remote = "ok") => ev.handler = "onSuccess"

\* C10 (Teardown idempotence): a logout made right after a logout that tore
\* the session down leaves the five keys absent and no entry under ["user"],
\* and changes nothing.
C10_TeardownIdempotent ==
  [][(ev'.op = "logoutSettled" /\ ev'.again)
       => /\ \A k \in StorageKeys : localStorage'[k] = NoItem
          /\ ~qExists'
          /\ UNCHANGED <<qExists, qData, qInvalidated, qAge, gcAge, fetchId,
                         failureCount, zombies, rState, rFetch, localStorage,
                         navigated>>]_vars

\* C10 witness: the second of two logouts in sequence has torn down.
C10_Witness ==
  /\ ev.op = "logoutSettled" /\ ev.again /\ ev.handler = "onSuccess"
  /\ sessionCleared /\ ~qExists /\ navigated

\* a caller's useUserQuery call is this step
mounts(r) == rState[r] = "off" /\ rState'[r] # "off"

\* C11 as claimed (Expiry forces refetch): a read of an entry whose payload is
\* at least gcTime old starts one new fetch and is not handed the cached
\* payload.
C11_ExpiryIsMiss ==
  [][\A r \in Readers :
       (mounts(r) /\ ev'.op = "useUserQuery" /\ ev'.old /\ fetchId = 0)
       => /\ nFetches' = nFetches + 1
          /\ data(r)' = Absent]_vars

\* C11 as amended: a read of an entry whose payload is at least gcTime old
\* gets a fetch, a new one when none is in flight and no second one
\* otherwise, and is handed the cached payload until that fetch ends; an
\* entry is removed only by the gc timer, gcTime after its last caller left.
C11_OldEntryRefetched ==
  [][/\ \A r \in Readers :
          (mounts(r) /\ ev'.op = "useUserQuery" /\ ev'.old)
          => /\ fetchId = 0 => nFetches' = nFetches + 1 /\ fetchId' = nFetches'
             /\ fetchId # 0 => nFetches' = nFetches /\ fetchId' = fetchId
             /\ rState'[r] = "waiting" /\ rFetch'[r] = fetchId'
             /\ data(r)' = qData /\ qData' = qData
     /\ ev'.op = "gc"
          => /\ gcAge >= gcTime /\ observers = 0
             /\ ~qExists' /\ qData' = Absent]_vars

\* C11 witness: a caller has mounted on a payload as old as gcTime; its fetch
\* is in flight and the payload is still in the cache.
C11_Witness ==
  /\ ev.op = "useUserQuery" /\ ev.old
  /\ qData # Absent /\ qAge >= gcTime
  /\ fetchId # 0
  /\ \E r \in Readers : rState[r] = "waiting" /\ rFetch[r] = fetchId /\ data(r) = qData

\* C12 (Fresh entries are served without the network): a read of an entry with
\* a payload, not invalidated and younger than staleTime is handed the cached
\* payload; it starts no fetch and no storage write.
C12_FreshServed ==
  [][\A r \in Readers :
       (/\ mounts(r)
        /\ qExists /\ qData # Absent /\ ~qInvalidated /\ qAge < staleTime)
       => /\ rState'[r] = "served" /\ rFetch'[r] = 0
          /\ data(r)' = qData /\ qData' = qData
          /\ nFetches' = nFetches /\ fetchId' = fetchId /\ zombies' = zombies
          /\ localStorage' = localStorage]_vars

\* C12 witness: a caller has mounted on a payload one ms younger than
\* staleTime and was served with no fetch in flight.
C12_Witness ==
  /\ ev.op = "useUserQuery" /\ ~ev.stale
  /\ qData # Absent /\ qAge = staleTime - 1
  /\ fetchId = 0
  /\ \A r \in Readers : rState[r] = "served"

\* C13 (Mirror survives cache clear): the removal of the entry from the cache
\* by anything but a logout leaves the storage as it was, and when
\* user_profile held the cached profile P, getLocalUserData returns P after it.
C13_MirrorSurvives ==
  [][ev'.op = "gc"
       => /\ localStorage' = localStorage
          /\ (qData # Absent /\ localStorage["user_profile"] = JSONstringify(qData))
               => getLocalUserData' = qData]_vars

\* C13 witness: the entry that the only fetch filled was collected, and
\* getLocalUserData still returns a profile that the cache held.
C13_Witness ==
  /\ ev.op = "gc" /\ ~qExists /\ qData = Absent
  /\ nFetches = 1 /\ fetchId = 0 /\ zombies = {}
  /\ localStorage["user_profile"] # NoItem
  /\ getLocalUserData \in Profiles /\ getLocalUserData \in committed

C15_MirrorAtReconcile ==
  [][\A m \in Mutations :
       (/\ uState[m] = "pending" /\ uState'[m] = "idle"
        /\ ev'.op = "updateSettled" /\ ev'.handler = "onSuccess")
       => IF qData # Absent
            THEN /\ localStorage' =
                      [localStorage EXCEPT !["user_profile"] = JSONstringify(qData)]
                 /\ (uClean[m] /\ uBefore[m] # Absent)
                      => getLocalUserData' =
                           [f \in Fields |-> IF f \in DOMAIN uVars[m]
                                               THEN uVars[m][f] ELSE uBefore[m][f]]
            ELSE localStorage' = localStorage]_vars

\* C15 witness: an update has succeeded and user_profile is the text of the
\* optimistic payload, which the cache still holds, invalidated.
C15_Witness ==
  /\ ev.op = "updateSettled" /\ ev.handler = "onSuccess" /\ ev.remote = "ok"
  /\ qData # Absent /\ qInvalidated
  /\ localStorage["user_profile"] = JSONstringify(qData)
  /\ qData.name = "Alice"

\* C16 (Update with no cached profile): an update that begins while the cache
\* holds no payload writes nothing to the cache and is left pending with its
\* variables; when it ends, undisturbed, in onSuccess or in onError, the
\* cache still holds no payload.
C16_NoCachedProfile ==
  [][\A m \in Mutations :
       /\ (uState[m] = "idle" /\ uState'[m] = "pending" /\ qData = Absent)
            => /\ qData' = Absent /\ qExists' = qExists /\ committed' = committed
               /\ uVars'[m] \in Updates
               /\ uCtx'[m].previousUser = Absent
       /\ (/\ uState[m] = "pending" /\ uState'[m] = "idle"
           /\ uClean[m] /\ uBefore[m] = Absent)
            => /\ qData = Absent /\ qData' = Absent
               /\ committed' = committed]_vars

\* C16 witness: an undisturbed update pending on a cache without payload.
C16_Witness ==
  \E m \in Mutations :
    /\ uState[m] = "pending" /\ uClean[m] /\ uBefore[m] = Absent
    /\ uVars[m] \in Updates
    /\ qData = Absent /\ committed = {}

\* C17 (Logout ordering): nothing is torn down before authApi.logout() has
\* settled; the navigation happens only at the end of a logout, and when it
\* happens no entry is left under ["user"] and none of the five keys is stored.
C17_LogoutOrdering ==
  [][/\ (lState = "idle" /\ lState' = "pending")
          => UNCHANGED <<qExists, qData, localStorage, navigated>>
     /\ (~navigated /\ navigated') => (lState = "pending" /\ lState' = "idle")
     /\ (ev'.op = "logoutSettled" /\ ev'.handoff # "none")
          => /\ ev'.handoff = "clean"
             /\ navigated'
             /\ ~qExists' /\ \A k \in StorageKeys : localStorage'[k] = NoItem]_vars

\* C17 witness: a logout has removed a filled entry, user_profile and the
\* tokens, and has navigated on a clean session.
C17_Witness ==
  /\ ev.op = "logoutSettled" /\ ev.handoff = "clean" /\ ~ev.again
  /\ navigated /\ ~qExists /\ sessionCleared
  /\ committed # {}

\* C18 (Invalidation persists until a remote read): once an update's onSuccess
\* has invalidated the entry, the entry stays stale for every read until a
\* fetch has ended well, whatever later updates write to the cache.
C18_InvalidationPersists == owed => isStale

\* C19 (Overlapping failed updates restore the original value): when the last
\* of the updates that overlapped ends, all of them rejected and nothing else
\* having acted since the first began, the cache holds the payload it held
\* before the first began.
C19_OverlapRestores ==
  [][\A m \in Mutations :
       (/\ pending = {m} /\ uState'[m] = "idle"
        /\ uGroup # NoGroup /\ uGroup.rejected /\ uGroup.quiet
        /\ ev'.op = "updateSettled" /\ ev'.remote = "rejected")
       => qData' = uGroup.origin]_vars

\* C20 (Logout is final for the persisted profile): the end of a queryFn call
\* that began before a logout cleaned up changes neither user_profile nor the
\* cache entry.
C20_LogoutFinal ==
  [][\A z \in preLogout :
       (z \in zombies /\ z \notin zombies')
       => /\ localStorage'["user_profile"] = localStorage["user_profile"]
          /\ UNCHANGED <<qExists, qData>>]_vars

====
